---- MODULE Spec2Model ----
(***************************************************************************)
(* UniAssist: the host-side serial graph (planner -> executor loop) of     *)
(* main_Agent.py and the JSON-RPC dispatcher of A2A/server.py.             *)
(*                                                                         *)
(* Text is modelled as a sequence of one-character strings so that the     *)
(* planner's line splitting and prefix stripping are computed, not         *)
(* assumed.                                                                *)
(***************************************************************************)
EXTENDS Integers, Sequences, FiniteSets, TLC

(* ------------------------------ bounds -------------------------------- *)

\* user requests typed into one CLI session
MaxRequests == 2

\* lines of text the planning model may answer with
MaxLines == 3

\* HTTP requests the dispatcher serves in one behaviour
MaxPosts == 2

\* states the remote agent's graph streams for one query
MaxItems == 3

\* calls made on one HostAgent
MaxOps == 2

\* characters of a generated plan text
MaxTextLen == 3

(* ------------------------------ text ---------------------------------- *)

NL == "\n"

Whitespace == {" ", NL}

\* the argument of lstrip in plan_node: digits, ".", ideographic comma,
\* ")", full-width ")" and the space
MarkerChars ==
    {"0", "1", "2", "3", "4", "5", "6", "7", "8", "9",
     ".", "IDEOGRAPHIC_COMMA", ")", "FULLWIDTH_RPAREN", " "}

RECURSIVE LStrip(_, _)
LStrip(s, cs) ==
    IF s = <<>> THEN <<>>
    ELSE IF Head(s) \in cs THEN LStrip(Tail(s), cs)
    ELSE s

RECURSIVE RStrip(_, _)
RStrip(s, cs) ==
    IF s = <<>> THEN <<>>
    ELSE IF s[Len(s)] \in cs THEN RStrip(SubSeq(s, 1, Len(s) - 1), cs)
    ELSE s

Strip(s) == RStrip(LStrip(s, Whitespace), Whitespace)

RECURSIVE SplitLinesFrom(_, _, _)
SplitLinesFrom(text, cur, out) ==
    IF text = <<>> THEN (IF cur = <<>> THEN out ELSE Append(out, cur))
    ELSE IF Head(text) = NL THEN SplitLinesFrom(Tail(text), <<>>, Append(out, cur))
    ELSE SplitLinesFrom(Tail(text), Append(cur, Head(text)), out)

SplitLines(text) == SplitLinesFrom(text, <<>>, <<>>)

NormalizeLine(s) == RStrip(LStrip(Strip(s), MarkerChars), Whitespace)

NonBlank(s) == Strip(s) # <<>>

\* steps = [normalize(s) for s in plan_text.splitlines() if s.strip()]
PlanSteps(plan_text) ==
    LET kept == SelectSeq(SplitLines(plan_text), NonBlank)
    IN  [k \in 1..Len(kept) |-> NormalizeLine(kept[k])]

RECURSIVE JoinLines(_)
JoinLines(ls) ==
    IF ls = <<>> THEN <<>>
    ELSE IF Len(ls) = 1 THEN ls[1]
    ELSE ls[1] \o <<NL>> \o JoinLines(Tail(ls))

(* ------------------------ inputs of the session ----------------------- *)

\* what the user may type at the prompt (other than quit)
UserTexts == {<<"q", "1">>, <<"q", "2">>}

\* lines the planning model may produce: numbered, bare, blank
PlanLines == {<<"1", ".", "a">>, <<"b">>, <<" ">>}

SeqsUpTo(S, n) == UNION {[1..k -> S] : k \in 0..n}

PlanTexts == {JoinLines(ls) : ls \in SeqsUpTo(PlanLines, MaxLines)}

\* what the host agent may answer to one turn; replies are told apart by the
\* turn they answer (reply_to), so one content is enough
ReplyContents == {"answer"}

(* ------------------------------ state --------------------------------- *)

VARIABLES
    node,       \* where the CLI session is: prompt, planner, executor, invoke, END, raised, exit
    messages,   \* state["messages"]
    steps,      \* state["steps"]
    current,    \* state["current"]
    history,    \* state["history"]
    requests,   \* graph.invoke calls made so far in the session
    error,      \* the exception that escaped graph.invoke, or "none"
    planned,    \* planner.invoke calls of the current request: question and answer
    sent,       \* react_agent.invoke calls of the current request
    inflight,   \* react_agent.invoke calls that have not returned
    base        \* len(history) when the current request started

hostVars == <<node, messages, steps, current, history, requests, error,
              planned, sent, inflight, base>>

\* the dispatcher of a remote agent (A2A/server.py)
VARIABLES
    posts,      \* POST requests served so far
    tasks,      \* the task store: status of each task id, or "absent"
    request,    \* the POST being answered (the last one)
    calls,      \* task-manager handlers invoked for that POST, in order
    outcome,    \* how the handler call ended: what it raised or the type it returned
    response    \* what _process_request returned for it

serverVars == <<posts, tasks, request, calls, outcome, response>>

\* one tasks/sendSubscribe stream of the weather agent (Weather/agent.py),
\* relayed by the dispatcher
VARIABLES
    spc,        \* idle, streaming, drained (the agent's generator is exhausted), closed
    graphItems, \* last message of each state self.graph.stream has still to produce
    structured, \* structured_response of the graph state when the graph has run
    yielded,    \* items WeatherAgent.stream has yielded
    events      \* events the dispatcher's event_generator has emitted

streamVars == <<spc, graphItems, structured, yielded, events>>

\* one HostAgent and its RemoteAgentClients (host_agent.py)
VARIABLES
    cards,      \* client.agent_card of each address of the directory
    ops,        \* calls made on the HostAgent so far
    last,       \* the last call: its name, its input and how it ended
    posted,     \* tasks/send requests posted to remote agents, by task id
    minted      \* task ids generated so far

agentVars == <<cards, ops, last, posted, minted>>

\* the planner's text processing on its own (main_Agent.py, plan_node)
VARIABLES
    ppc,        \* idle, generated, returned
    generated,  \* the text the planning model produced
    subtasks    \* the list plan_node stores in state["steps"]

planVars == <<ppc, generated, subtasks>>

\* the frames of the actions of each part
notHost == <<serverVars, streamVars, agentVars, planVars>>

notServer == <<hostVars, streamVars, agentVars, planVars>>

notStream == <<hostVars, serverVars, agentVars, planVars>>

notAgent == <<hostVars, serverVars, streamVars, planVars>>

notPlan == <<hostVars, serverVars, streamVars, agentVars>>

vars == <<hostVars, serverVars, streamVars, agentVars, planVars>>

(* --------------------------- main_Agent.py ---------------------------- *)

END == "END"

EntryPoint == "planner"

PlannerEdge_Again == "planner"

\* workflow.add_edge("planner", "executor")
PlannerEdge == "executor"

\* lambda s: "executor" if s["current"] < len(s["steps"]) else END
ExecutorEdge(s) == IF s.current < Len(s.steps) THEN "executor" ELSE END

\* last_msg = state["messages"][-1]; question = last_msg.get("content", "")
Question(msgs) == msgs[Len(msgs)].content

StepAt_First(stps, step_idx) == stps[1]

\* step = state["steps"][step_idx]
StepAt(stps, step_idx) == stps[step_idx + 1]

UserTurn(step) == [role |-> "user", content |-> step]

TurnMessages_NoContext(hist, step) == <<UserTurn(step)>>

\* history + [user_turn]
TurnMessages(hist, step) == hist \o <<UserTurn(step)>>

AppendReply_Overwrite(hist, ai_msg) == <<ai_msg>>

\* state["history"] = history + [ai_msg]
AppendReply(hist, ai_msg) == hist \o <<ai_msg>>

NextIndex_Skip(i) == i + 2

\* state["current"] += 1
NextIndex(i) == i + 1

HostInit ==
    /\ node = "prompt"
    /\ messages = <<>>
    /\ steps = <<>>
    /\ current = 0
    /\ history = <<>>
    /\ requests = 0
    /\ error = "none"
    /\ planned = <<>>
    /\ sent = <<>>
    /\ inflight = 0
    /\ base = 0

\* run_agent: one pass of the while loop up to graph.invoke; the checkpointer
\* keeps steps, current and history of the thread "cli-session"
UserPrompt ==
    /\ node \in {"prompt", END}
    /\ requests < MaxRequests
    /\ \E user_msg \in UserTexts :
          messages' = <<[role |-> "user", content |-> user_msg]>>
    /\ requests' = requests + 1
    /\ node' = EntryPoint
    /\ planned' = <<>>
    /\ sent' = <<>>
    /\ base' = Len(history)
    /\ UNCHANGED <<steps, current, history, error, inflight>>
    /\ UNCHANGED notHost

\* run_agent: the user types quit, exit or bye
Quit ==
    /\ node \in {"prompt", END}
    /\ node' = "exit"
    /\ UNCHANGED <<messages, steps, current, history, requests, error,
                   planned, sent, inflight, base>>
    /\ UNCHANGED notHost

plan_node ==
    /\ node = "planner"
    /\ \E plan_text \in PlanTexts :
          /\ planned' = Append(planned, [question |-> Question(messages),
                                         plan_text |-> plan_text])
          /\ steps' = PlanSteps(plan_text)
    /\ current' = 0
    /\ node' = PlannerEdge
    /\ UNCHANGED <<messages, history, requests, error, sent, inflight, base>>
    /\ UNCHANGED notHost

\* executor_node, lines 63-74: read the step, build the turn, call the host agent
executor_invoke ==
    /\ node = "executor"
    /\ current < Len(steps)
    /\ LET step_idx == current
           step == StepAt(steps, step_idx)
       IN  sent' = Append(sent, [step_idx |-> step_idx,
                                 step |-> step,
                                 messages |-> TurnMessages(history, step)])
    /\ inflight' = inflight + 1
    /\ node' = "invoke"
    /\ UNCHANGED <<messages, steps, current, history, requests, error, planned, base>>
    /\ UNCHANGED notHost

\* executor_node, line 64: state["steps"][step_idx] with step_idx out of range
executor_index_error ==
    /\ node = "executor"
    /\ ~(current < Len(steps))
    /\ error' = "IndexError"
    /\ node' = "raised"
    /\ UNCHANGED <<messages, steps, current, history, requests,
                   planned, sent, inflight, base>>
    /\ UNCHANGED notHost

\* executor_node, lines 77-88, and the conditional edge out of the executor
executor_return ==
    /\ node = "invoke"
    /\ \E content \in ReplyContents :
          LET ai_msg == [role |-> "ai", content |-> content,
                         reply_to |-> sent[Len(sent)].step_idx]
          IN  history' = AppendReply(history, ai_msg)
    /\ current' = NextIndex(current)
    /\ inflight' = inflight - 1
    /\ node' = ExecutorEdge([steps |-> steps, current |-> current'])
    /\ UNCHANGED <<messages, steps, requests, error, planned, sent, base>>
    /\ UNCHANGED notHost

executor_raise_Continue ==
    /\ node = "invoke"
    /\ error' = "DispatchError"
    /\ inflight' = inflight - 1
    /\ current' = current + 1
    /\ node' = IF current + 1 < Len(steps) THEN "executor" ELSE END
    /\ UNCHANGED <<messages, steps, history, requests, planned, sent, base>>
    /\ UNCHANGED notHost

\* executor_node, line 74: react_agent.invoke raises; nothing catches it
executor_raise ==
    /\ node = "invoke"
    /\ error' = "DispatchError"
    /\ inflight' = inflight - 1
    /\ node' = "raised"
    /\ UNCHANGED <<messages, steps, current, history, requests, planned, sent, base>>
    /\ UNCHANGED notHost

(* ---------------------------- A2A/server.py -------------------------- *)

Methods ==
    {"tasks/send", "tasks/sendSubscribe", "tasks/get", "tasks/cancel",
     "tasks/pushNotification/set", "tasks/pushNotification/get",
     "tasks/resubscribe"}

TaskIds == {"t1", "t2"}

RequestIds == {"id1", "id2"}

Terminal == {"completed", "failed", "canceled"}

\* a JSON body that decodes: an envelope that may or may not be well formed
Bodies ==
    [jsonrpc_ok : BOOLEAN,
     id : RequestIds,
     method : Methods \cup {"tasks/unknown"},
     params_ok : BOOLEAN,
     task : TaskIds]

\* what a client may POST: bytes that are not JSON, or a JSON body
Posts == {[decodes |-> FALSE]} \cup {[decodes |-> TRUE, body |-> b] : b \in Bodies}

\* exceptions a task-manager handler may raise
HandlerExceptions == {"JSONDecodeError", "ValidationError", "RuntimeError"}

\* A2ARequest.validate_python: the union of the seven request types,
\* discriminated by the method field
ValidatePython(body) ==
    IF body.jsonrpc_ok /\ body.params_ok /\ body.method \in Methods
    THEN CASE body.method = "tasks/send" -> "SendTaskRequest"
           [] body.method = "tasks/sendSubscribe" -> "SendTaskStreamingRequest"
           [] body.method = "tasks/get" -> "GetTaskRequest"
           [] body.method = "tasks/cancel" -> "CancelTaskRequest"
           [] body.method = "tasks/pushNotification/set" -> "SetTaskPushNotificationRequest"
           [] body.method = "tasks/pushNotification/get" -> "GetTaskPushNotificationRequest"
           [] body.method = "tasks/resubscribe" -> "TaskResubscriptionRequest"
    ELSE "ValidationError"

HandlerFor_Misrouted(request_type) ==
    CASE request_type = "GetTaskRequest" -> "on_get_task"
      [] request_type = "SendTaskRequest" -> "on_send_task"
      [] request_type = "SendTaskStreamingRequest" -> "on_send_task"
      [] request_type = "CancelTaskRequest" -> "on_cancel_task"
      [] request_type = "SetTaskPushNotificationRequest" -> "on_set_task_push_notification"
      [] request_type = "GetTaskPushNotificationRequest" -> "on_get_task_push_notification"
      [] request_type = "TaskResubscriptionRequest" -> "on_resubscribe_to_task"
      [] OTHER -> "none"

\* the isinstance chain of _process_request
HandlerFor(request_type) ==
    CASE request_type = "GetTaskRequest" -> "on_get_task"
      [] request_type = "SendTaskRequest" -> "on_send_task"
      [] request_type = "SendTaskStreamingRequest" -> "on_send_task_subscribe"
      [] request_type = "CancelTaskRequest" -> "on_cancel_task"
      [] request_type = "SetTaskPushNotificationRequest" -> "on_set_task_push_notification"
      [] request_type = "GetTaskPushNotificationRequest" -> "on_get_task_push_notification"
      [] request_type = "TaskResubscriptionRequest" -> "on_resubscribe_to_task"
      [] OTHER -> "none"

ErrorFor_ParseAsInternal(e) ==
    IF e = "ValidationError" THEN "InvalidRequestError" ELSE "InternalError"

\* the isinstance chain of _handle_exception
ErrorFor(e) ==
    IF e = "JSONDecodeError" THEN "JSONParseError"
    ELSE IF e = "ValidationError" THEN "InvalidRequestError"
    ELSE "InternalError"

\* InvalidRequestError(data=json.loads(e.json())); the other errors carry no data
ErrorData(e) ==
    IF e = "ValidationError" THEN "validation errors of the exception" ELSE "none"

HandleException_Escapes(e) ==
    IF e \in {"JSONDecodeError", "ValidationError"}
    THEN [kind |-> "json", status_code |-> 400, id |-> "None",
          error |-> ErrorFor(e), data |-> ErrorData(e)]
    ELSE [kind |-> "none", status_code |-> 500, id |-> "None",
          error |-> "none", data |-> "none"]

\* JSONResponse(JSONRPCResponse(id=None, error=...), status_code=400)
HandleException(e) ==
    [kind |-> "json", status_code |-> 400, id |-> "None",
     error |-> ErrorFor(e), data |-> ErrorData(e)]

CreateResponse_NoStream(result) ==
    IF result.type \in {"AsyncIterable", "JSONRPCResponse"}
    THEN [kind |-> "json", status_code |-> 200, id |-> result.id,
          error |-> "none", data |-> "none"]
    ELSE HandleException("ValueError")

\* _create_response; the ValueError it raises is caught by _process_request
CreateResponse(result) ==
    IF result.type = "AsyncIterable"
    THEN [kind |-> "sse", status_code |-> 200, id |-> result.id,
          error |-> "none", data |-> "none"]
    ELSE IF result.type = "JSONRPCResponse"
    THEN [kind |-> "json", status_code |-> 200, id |-> result.id,
          error |-> result.error, data |-> "none"]
    ELSE HandleException("ValueError")

\* the task manager: what one handler call may do to the store and hand back
Returned(type, body, err, store) ==
    [raises |-> "none",
     result |-> [type |-> type, id |-> body.id, error |-> err],
     tasks |-> store]

SendOutcomes_Resend(type, body, store) ==
    {Returned(type, body, "none", [store EXCEPT ![body.task] = st]) :
        st \in {"working", "input-required", "completed", "failed"}}

SendOutcomes(type, body, store) ==
    IF store[body.task] \in Terminal
    THEN {Returned("JSONRPCResponse", body, "InvalidStateTransition", store)}
    ELSE {Returned(type, body, "none", [store EXCEPT ![body.task] = st]) :
             st \in {"working", "input-required", "completed", "failed"}}

HandlerOutcomes(handler, body, store) ==
    {[raises |-> e, result |-> [type |-> "none", id |-> body.id, error |-> "none"],
      tasks |-> store] : e \in HandlerExceptions}
    \cup
    {Returned("dict", body, "none", store)}
    \cup
    CASE handler = "on_send_task" -> SendOutcomes("JSONRPCResponse", body, store)
      [] handler = "on_send_task_subscribe" -> SendOutcomes("AsyncIterable", body, store)
      [] handler = "on_cancel_task" ->
            IF store[body.task] = "absent"
            THEN {Returned("JSONRPCResponse", body, "TaskNotFound", store)}
            ELSE IF store[body.task] \in Terminal
            THEN {Returned("JSONRPCResponse", body, "InvalidStateTransition", store)}
            ELSE {Returned("JSONRPCResponse", body, "none",
                           [store EXCEPT ![body.task] = "canceled"])}
      [] handler = "on_resubscribe_to_task" ->
            IF store[body.task] = "absent"
            THEN {Returned("JSONRPCResponse", body, "TaskNotFound", store)}
            ELSE {Returned("AsyncIterable", body, "none", store)}
      [] OTHER ->
            IF store[body.task] = "absent"
            THEN {Returned("JSONRPCResponse", body, "TaskNotFound", store)}
            ELSE {Returned("JSONRPCResponse", body, "none", store)}

ServerInit ==
    /\ posts = 0
    /\ tasks = [t \in TaskIds |-> "absent"]
    /\ request = [decodes |-> FALSE]
    /\ calls = <<>>
    /\ outcome = [raises |-> "none", type |-> "none"]
    /\ response = [kind |-> "none", status_code |-> 0, id |-> "None",
                   error |-> "none", data |-> "none"]

\* _process_request: request.json() raises JSONDecodeError
post_undecodable ==
    /\ posts < MaxPosts
    /\ posts' = posts + 1
    /\ request' = [decodes |-> FALSE]
    /\ calls' = <<>>
    /\ outcome' = [raises |-> "none", type |-> "none"]
    /\ response' = HandleException("JSONDecodeError")
    /\ UNCHANGED tasks
    /\ UNCHANGED notServer

\* _process_request: validate_python raises ValidationError
post_invalid ==
    /\ posts < MaxPosts
    /\ \E body \in Bodies :
          /\ ValidatePython(body) = "ValidationError"
          /\ request' = [decodes |-> TRUE, body |-> body]
    /\ posts' = posts + 1
    /\ calls' = <<>>
    /\ outcome' = [raises |-> "none", type |-> "none"]
    /\ response' = HandleException("ValidationError")
    /\ UNCHANGED tasks
    /\ UNCHANGED notServer

\* _process_request: a validated request goes to its handler and the result,
\* or the exception, is rendered
post_valid ==
    /\ posts < MaxPosts
    /\ \E body \in Bodies :
          LET request_type == ValidatePython(body)
              handler == HandlerFor(request_type)
          IN  /\ request_type # "ValidationError"
              /\ request' = [decodes |-> TRUE, body |-> body]
              /\ IF handler = "none"
                 THEN /\ calls' = <<>>
                      /\ outcome' = [raises |-> "none", type |-> "none"]
                      /\ response' = HandleException("ValueError")
                      /\ UNCHANGED tasks
                 ELSE \E out \in HandlerOutcomes(handler, body, tasks) :
                         /\ calls' = <<handler>>
                         /\ outcome' = [raises |-> out.raises, type |-> out.result.type]
                         /\ tasks' = out.tasks
                         /\ response' = IF out.raises # "none"
                                        THEN HandleException(out.raises)
                                        ELSE CreateResponse(out.result)
    /\ posts' = posts + 1
    /\ UNCHANGED notServer

(* --------------------------- Weather/agent.py ------------------------- *)

\* the last message of a streamed graph state
MessageKinds == {"HumanMessage", "AIMessage with tool_calls", "AIMessage", "ToolMessage"}

\* structured_response: missing, or a ResponseFormat with one of three statuses
StructuredStatuses == {"missing", "input_required", "completed", "error"}

Item(complete, input, content) ==
    [is_task_complete |-> complete, require_user_input |-> input, content |-> content]

\* WeatherAgent.stream, the body of the for loop: what one graph state yields
ProgressItems(message) ==
    IF message = "AIMessage with tool_calls"
    THEN <<Item(FALSE, FALSE, "Looking up the exchange rates...")>>
    ELSE IF message = "ToolMessage"
    THEN <<Item(FALSE, FALSE, "Processing the exchange rates..")>>
    ELSE <<>>

GetAgentResponse_ErrorCompletes(status) ==
    IF status = "input_required" THEN Item(FALSE, TRUE, "message")
    ELSE IF status \in {"error", "completed"} THEN Item(TRUE, FALSE, "message")
    ELSE Item(FALSE, TRUE,
              "We are unable to process your request at the moment. Please try again.")

\* WeatherAgent.get_agent_response
GetAgentResponse(status) ==
    IF status = "input_required" THEN Item(FALSE, TRUE, "message")
    ELSE IF status = "error" THEN Item(FALSE, TRUE, "message")
    ELSE IF status = "completed" THEN Item(TRUE, FALSE, "message")
    ELSE Item(FALSE, TRUE,
              "We are unable to process your request at the moment. Please try again.")

\* the task manager of the agent: the task status an agent item stands for
TaskStateOf(item) ==
    IF item.is_task_complete THEN "completed"
    ELSE IF item.require_user_input THEN "input-required"
    ELSE "working"

\* the task manager of the agent: the streaming response built from one item
StatusUpdate(item) ==
    [state |-> TaskStateOf(item),
     final |-> item.is_task_complete \/ item.require_user_input,
     text |-> item.content]

\* event_generator: {"data": item.model_dump_json(exclude_none=True)}
Event(update) == [data |-> [json |-> update]]

Relay_Twice(evs, items) ==
    evs \o [k \in 1..2 * Len(items) |-> Event(StatusUpdate(items[(k + 1) \div 2]))]

\* async for item in result: yield {...}, one event per item, in order
Relay(evs, items) == evs \o [k \in 1..Len(items) |-> Event(StatusUpdate(items[k]))]

StreamInit ==
    /\ spc = "idle"
    /\ graphItems = <<>>
    /\ structured = "missing"
    /\ yielded = <<>>
    /\ events = <<>>

\* tasks/sendSubscribe on a new task: stream(query, sessionId) starts the graph
stream_open ==
    /\ spc \in {"idle", "closed"}
    /\ \E rest \in SeqsUpTo(MessageKinds, MaxItems) :
          graphItems' = <<"HumanMessage">> \o rest
    /\ structured' \in StructuredStatuses
    /\ yielded' = <<>>
    /\ events' = <<>>
    /\ spc' = "streaming"
    /\ UNCHANGED notStream

\* WeatherAgent.stream: one pass of the for loop, relayed by the dispatcher
stream_item ==
    /\ spc = "streaming"
    /\ graphItems # <<>>
    /\ LET items == ProgressItems(Head(graphItems))
       IN  /\ yielded' = yielded \o items
           /\ events' = Relay(events, items)
    /\ graphItems' = Tail(graphItems)
    /\ UNCHANGED <<spc, structured>>
    /\ UNCHANGED notStream

\* WeatherAgent.stream: yield self.get_agent_response(config), the last item
stream_last ==
    /\ spc = "streaming"
    /\ graphItems = <<>>
    /\ LET items == <<GetAgentResponse(structured)>>
       IN  /\ yielded' = yielded \o items
           /\ events' = Relay(events, items)
    /\ spc' = "drained"
    /\ UNCHANGED <<graphItems, structured>>
    /\ UNCHANGED notStream

\* the agent's generator ends, so async for ends and the event stream closes
stream_close ==
    /\ spc = "drained"
    /\ spc' = "closed"
    /\ UNCHANGED <<graphItems, structured, yielded, events>>
    /\ UNCHANGED notStream

(* ----------------------------- host_agent.py -------------------------- *)

\* HostAgent(remote_addresses): the directory, in insertion order
AddrList == <<"http://localhost:8000", "http://localhost:8001">>

Addrs == {AddrList[i] : i \in 1..Len(AddrList)}

AgentNames == {"Weather Agent", "Currency Agent"}

\* discovery documents with every required key; "absent" marks a missing
\* optional key
FullDocs ==
    [name : AgentNames,
     version : {"1.0.0"},
     has_capabilities : {TRUE},
     streaming : {"true", "absent"},
     description : {"Helps", "", "absent"}]

BareDoc ==
    [name |-> "Weather Agent", version |-> "1.0.0", has_capabilities |-> TRUE,
     streaming |-> "absent", description |-> "absent"]

\* the documents a discovery endpoint answers with: the full ones, and the
\* ones that lack one required key
Docs ==
    FullDocs \cup {[BareDoc EXCEPT !.name = "absent"],
                   [BareDoc EXCEPT !.version = "absent"],
                   [BareDoc EXCEPT !.has_capabilities = FALSE]}

NoDoc ==
    [name |-> "absent", version |-> "absent", has_capabilities |-> FALSE,
     streaming |-> "absent", description |-> "absent"]

\* requests.get(...) followed by raise_for_status() and resp.json()
GetOutcomes ==
    {[raises |-> e, doc |-> NoDoc] : e \in {"ConnectionError", "Timeout", "HTTPError"}}
    \cup {[raises |-> "none", doc |-> d] : d \in Docs}

\* client.agent_card = None
NoCard ==
    [loaded |-> FALSE, name |-> "", url |-> "", version |-> "",
     streaming |-> FALSE, description |-> ""]

\* AgentCapabilities(**caps_data): a flag that is not given is False
CapabilityFlag(flag) == IF flag = "absent" THEN FALSE ELSE flag = "true"

DescriptionOf_Required(d) == d

\* data.get("description", "") and, in AgentCard, description or "No description."
DescriptionOf(d) ==
    LET got == IF d = "absent" THEN "" ELSE d
    IN  IF got = "" THEN "No description." ELSE got

\* RemoteAgentClient.fetch_agent_card: what it raises, and the card it builds
FetchAgentCard(base_url, get) ==
    IF get.raises # "none" THEN [raises |-> get.raises, card |-> NoCard]
    ELSE IF ~get.doc.has_capabilities \/ get.doc.name = "absent"
            \/ get.doc.version = "absent"
    THEN [raises |-> "KeyError", card |-> NoCard]
    ELSE [raises |-> "none",
          card |-> [loaded |-> TRUE,
                    name |-> get.doc.name,
                    url |-> base_url,
                    version |-> get.doc.version,
                    streaming |-> CapabilityFlag(get.doc.streaming),
                    description |-> DescriptionOf(get.doc.description)]]

\* the body of a response to tasks/send
SendBodies ==
    [json : {TRUE},
     error : {"absent", "null", "error object"},
     result : {"absent", "completed", "input-required", "failed"}]

NoBody == [json |-> FALSE, error |-> "absent", result |-> "absent"]

\* requests.post(...): it raises, or a response with a status and a body arrives
PostOutcomes ==
    {[raises |-> e, status_code |-> 0, body |-> NoBody] : e \in {"ConnectionError", "Timeout"}}
    \cup [raises : {"none"}, status_code : {200, 400}, body : SendBodies \cup {NoBody}]

\* RemoteAgentClient.send_task after the post: what it raises or returns
ClientSendTask(post) ==
    IF post.raises # "none" THEN [raises |-> post.raises, value |-> "none"]
    ELSE IF post.status_code >= 400 THEN [raises |-> "HTTPError", value |-> "none"]
    ELSE IF ~post.body.json THEN [raises |-> "JSONDecodeError", value |-> "none"]
    ELSE IF post.body.error = "error object" THEN [raises |-> "RuntimeError", value |-> "none"]
    ELSE [raises |-> "none",
          value |-> IF post.body.result = "absent" THEN "{}" ELSE post.body.result]

ClientByName_First(cs, agent_name) == AddrList[1]

\* HostAgent.get_client_by_name: the first address whose card has that name
ClientByName(cs, agent_name) ==
    LET hits == {i \in 1..Len(AddrList) :
                    cs[AddrList[i]].loaded /\ cs[AddrList[i]].name = agent_name}
    IN  IF hits = {} THEN "None"
        ELSE AddrList[CHOOSE i \in hits : \A j \in hits : i <= j]

\* HostAgent.send_task, the try block: the string it returns for a client outcome
SummaryOf(sent_task) ==
    IF sent_task.raises # "none"
    THEN [type |-> "str", text |-> "Remote agent call failed: ", detail |-> sent_task.raises]
    ELSE IF sent_task.value = "completed"
    THEN [type |-> "str", text |-> "Task completed with message: ", detail |-> sent_task.value]
    ELSE IF sent_task.value = "input-required"
    THEN [type |-> "str", text |-> "Task needs more input: ", detail |-> sent_task.value]
    ELSE [type |-> "str", text |-> "Task ended with state=",
          detail |-> IF sent_task.value = "{}" THEN "unknown" ELSE sent_task.value]

\* the failure behind an exception of RemoteAgentClient.send_task
FailureOf(exc) ==
    IF exc = "RuntimeError" THEN "remote protocol error"
    ELSE IF exc \in {"ConnectionError", "Timeout", "HTTPError"} THEN "transport error"
    ELSE "other"

\* list_agents_info: the summary of one directory entry
InfoOf_Placeholder(addr, card) ==
    [name |-> "Unknown", description |-> "Not loaded", url |-> addr, streaming |-> FALSE]

InfoOf(addr, card) ==
    IF card.loaded
    THEN [name |-> card.name, description |-> card.description,
          url |-> card.url, streaming |-> card.streaming]
    ELSE [name |-> "Unknown", description |-> "Not loaded",
          url |-> addr, streaming |-> FALSE]

\* HostAgent.initialize from the i-th client on: the loop ends at the first raise
RECURSIVE InitializeFrom(_, _, _)
InitializeFrom(i, cs, gets) ==
    IF i > Len(AddrList) THEN [raises |-> "none", cards |-> cs]
    ELSE LET fetched == FetchAgentCard(AddrList[i], gets[AddrList[i]])
         IN  IF fetched.raises # "none" THEN [raises |-> fetched.raises, cards |-> cs]
             ELSE InitializeFrom(i + 1, [cs EXCEPT ![AddrList[i]] = fetched.card], gets)

AgentInit ==
    /\ cards = [a \in Addrs |-> NoCard]
    /\ ops = 0
    /\ last = [op |-> "__init__"]
    /\ posted = <<>>
    /\ minted = 0

\* RemoteAgentClient.fetch_agent_card on the client of one address
fetch_agent_card ==
    /\ ops < MaxOps
    /\ \E addr \in Addrs, get \in GetOutcomes :
          LET fetched == FetchAgentCard(addr, get)
          IN  /\ cards' = IF fetched.raises = "none"
                          THEN [cards EXCEPT ![addr] = fetched.card]
                          ELSE cards
              /\ last' = [op |-> "fetch_agent_card", addr |-> addr, doc |-> get.doc,
                          got |-> get.raises, raises |-> fetched.raises]
    /\ ops' = ops + 1
    /\ UNCHANGED <<posted, minted>>
    /\ UNCHANGED notAgent

\* HostAgent.initialize: every client fetches its card, in directory order
initialize ==
    /\ ops < MaxOps
    /\ \E gets \in [Addrs -> GetOutcomes] :
          LET done == InitializeFrom(1, cards, gets)
          IN  /\ cards' = done.cards
              /\ last' = [op |-> "initialize", raises |-> done.raises]
    /\ ops' = ops + 1
    /\ UNCHANGED <<posted, minted>>
    /\ UNCHANGED notAgent

\* HostAgent.list_agents_info
list_agents_info ==
    /\ ops < MaxOps
    /\ last' = [op |-> "list_agents_info",
                infos |-> [i \in 1..Len(AddrList) |->
                              InfoOf(AddrList[i], cards[AddrList[i]])]]
    /\ ops' = ops + 1
    /\ UNCHANGED <<cards, posted, minted>>
    /\ UNCHANGED notAgent

\* HostAgent.send_task with no client of that name
send_task_unknown ==
    /\ ops < MaxOps
    /\ \E agent_name \in AgentNames :
          /\ ClientByName(cards, agent_name) = "None"
          /\ last' = [op |-> "send_task", agent_name |-> agent_name, addr |-> "None",
                      raises |-> "none",
                      returned |-> [type |-> "str",
                                    text |-> "Error: No agent card found for ",
                                    detail |-> agent_name]]
    /\ ops' = ops + 1
    /\ UNCHANGED <<cards, posted, minted>>
    /\ UNCHANGED notAgent

\* HostAgent.send_task: one tasks/send through the client of that name
send_task ==
    /\ ops < MaxOps
    /\ \E agent_name \in AgentNames, post \in PostOutcomes :
          LET addr == ClientByName(cards, agent_name)
              task_id == minted + 1
              sent_task == ClientSendTask(post)
              returned == SummaryOf(sent_task)
          IN  /\ addr # "None"
              /\ minted' = task_id
              /\ posted' = Append(posted, [url |-> addr, method |-> "tasks/send",
                                           task_id |-> task_id])
              /\ last' = [op |-> "send_task", agent_name |-> agent_name, addr |-> addr,
                          post |-> post, client |-> sent_task,
                          raises |-> "none", returned |-> returned]
    /\ ops' = ops + 1
    /\ UNCHANGED cards
    /\ UNCHANGED notAgent

(* ------------------- main_Agent.py: the plan text --------------------- *)

\* characters the planning model may produce: a digit, the dot, the space, a
\* bullet, a letter and the line break
PlanChars == {"1", ".", " ", "-", "a", NL}

GeneratedTexts == SeqsUpTo(PlanChars, MaxTextLen)

PlanInit ==
    /\ ppc = "idle"
    /\ generated = <<>>
    /\ subtasks = <<>>

\* plan_node, line 101: the planning model answers with some text
plan_generate ==
    /\ ppc = "idle"
    /\ \E text \in GeneratedTexts : generated' = text
    /\ ppc' = "generated"
    /\ UNCHANGED subtasks
    /\ UNCHANGED notPlan

\* plan_node, lines 103-112: the text is cut into the list of steps
plan_normalize ==
    /\ ppc = "generated"
    /\ subtasks' = PlanSteps(generated)
    /\ ppc' = "returned"
    /\ UNCHANGED generated
    /\ UNCHANGED notPlan

(* --------------------------- specifications --------------------------- *)

Init == HostInit /\ ServerInit /\ StreamInit /\ AgentInit /\ PlanInit

Next ==
    \/ UserPrompt
    \/ Quit
    \/ plan_node
    \/ executor_invoke
    \/ executor_index_error
    \/ executor_return
    \/ executor_raise

\* the CLI session of main_Agent.py
Spec == Init /\ [][Next]_vars

DispatchNext ==
    \/ post_undecodable
    \/ post_invalid
    \/ post_valid

\* the dispatcher of one remote agent
DispatchSpec == Init /\ [][DispatchNext]_vars

StreamNext ==
    \/ stream_open
    \/ stream_item
    \/ stream_last
    \/ stream_close

\* one event stream of the weather agent behind the dispatcher
StreamSpec == Init /\ [][StreamNext]_vars

AgentNext ==
    \/ fetch_agent_card
    \/ initialize
    \/ list_agents_info
    \/ send_task_unknown
    \/ send_task

\* one HostAgent used by its caller
AgentSpec == Init /\ [][AgentNext]_vars

PlanNext ==
    \/ plan_generate
    \/ plan_normalize

\* the planner's text processing, for every text up to MaxTextLen characters
PlanSpec == Init /\ [][PlanNext]_vars

(* ------------------------------ claims -------------------------------- *)

\* nodes of a request that graph.invoke has started and not finished normally
Running == {"planner", "executor", "invoke", "raised"}

\* nodes at which the planning pass of the current request is over
Planned == {"executor", "invoke", END, "raised"}

\* C1: in one run the executor dispatches the steps in plan order, the k-th
\* dispatch carrying steps[k] with none skipped or repeated, all n of them by
\* the time the run ends, and history is one longer after each dispatch that
\* returned.
C1_DispatchInOrder ==
    (node \in Planned) =>
        /\ Len(sent) <= Len(steps)
        /\ \A k \in 1..Len(sent) :
              /\ sent[k].step_idx = k - 1
              /\ sent[k].step = steps[k]
        /\ (node = END => Len(sent) = Len(steps))
        /\ (error = "none" => Len(history) = base + Len(sent) - inflight)

C1_Witness ==
    /\ node = END
    /\ Len(steps) = 3
    /\ Len(sent) = 3
    /\ steps[1] # steps[2]

\* C2: at most one dispatch is in flight; every dispatch but the last has its
\* reply in history before the next one starts; the turn sent for step k is
\* the history of that moment followed by step k as one user turn.
C2_SequentialWithContext ==
    /\ inflight \in {0, 1}
    /\ (inflight = 1 <=> node = "invoke")
    /\ (node \in Planned) =>
          \A k \in 1..Len(sent) :
             /\ base + k - 1 <= Len(history)
             /\ sent[k].messages =
                   SubSeq(history, 1, base + k - 1) \o
                   <<[role |-> "user", content |-> steps[k]]>>
             /\ (k < Len(sent) =>
                   /\ Len(history) >= base + k
                   /\ history[base + k].reply_to = sent[k].step_idx)

C2_Witness ==
    /\ node = "invoke"
    /\ Len(sent) = 2
    /\ Len(sent[2].messages) = 2
    /\ sent[2].messages[1].role = "ai"

\* C3 (as claimed): 0 <= currentIndex <= len(steps) always, and the executor
\* runs an iteration only when currentIndex < len(steps), for every plan the
\* planner can return, the empty plan included.
C3_IndexInRangeAndGuarded ==
    /\ 0 <= current
    /\ current <= Len(steps)
    /\ (node \in {"executor", "invoke"} => current < Len(steps))

\* C4 (as claimed): unless a dispatch raised, a run is never stuck short of
\* DONE; DONE is where currentIndex = len(steps), not earlier; and nothing is
\* dispatched at DONE.
C4_RunReachesDone ==
    /\ (node \in Running /\ error # "DispatchError") =>
          ENABLED (plan_node \/ executor_invoke \/ executor_return)
    /\ (node = END => current = Len(steps) /\ inflight = 0)

\* C5 (as claimed): at DONE history holds exactly one reply per step of the
\* plan just executed, in step order, for every request of the session.
C5_HistoryIsOneReplyPerStep ==
    node = END =>
        /\ Len(history) = Len(steps)
        /\ \A k \in 1..Len(steps) : history[k].reply_to = k - 1

\* C6: history is append-only: any step that changes it appends exactly one
\* element to it, keeps the elements it had, and is the completion of an
\* executor step; a planning pass leaves it as it was.
C6_HistoryAppendOnly ==
    [][ /\ (history' # history =>
              /\ Len(history') = Len(history) + 1
              /\ SubSeq(history', 1, Len(history)) = history
              /\ node = "invoke"
              /\ node' \in {"executor", END})
        /\ (node = "planner" => history' = history) ]_vars

C6_Witness ==
    /\ requests = 2
    /\ base >= 2
    /\ Len(history) >= base + 2

\* C7: per request the planner is invoked exactly once, on the content of the
\* last message, before any dispatch and not again while executing; when the
\* planning pass ends steps is the new plan and currentIndex is 0.
C7_PlannerOncePerRequest ==
    /\ (node = "planner" => planned = <<>> /\ sent = <<>>)
    /\ (node \in Planned =>
          /\ Len(planned) = 1
          /\ planned[1].question = messages[Len(messages)].content)
    /\ (node = "executor" /\ sent = <<>> =>
          /\ current = 0
          /\ steps = PlanSteps(planned[1].plan_text))

C7_Witness ==
    /\ requests = 2
    /\ node = "executor"
    /\ sent = <<>>
    /\ Len(steps) = 2
    /\ base > 0

\* C8: no executor iteration changes steps: through the whole execution steps
\* is what the planning pass produced, and the step read at index k is the
\* k-th string of that plan.
C8_StepsFrozenWhileExecuting ==
    node \in Planned =>
        /\ steps = PlanSteps(planned[1].plan_text)
        /\ \A k \in 1..Len(sent) :
              sent[k].step = PlanSteps(planned[1].plan_text)[sent[k].step_idx + 1]

C8_Witness ==
    /\ node = END
    /\ Len(sent) = 3
    /\ sent[3].step # sent[2].step

\* a POST that is not JSON, whose envelope fails validation, or whose method
\* is not one of the seven
Malformed(req) ==
    \/ ~req.decodes
    \/ ~req.body.jsonrpc_ok
    \/ ~req.body.params_ok
    \/ req.body.method \notin Methods

\* C9: exactly the seven methods are recognized: a valid request for one of
\* them invokes the handler of that method, once, and no other handler; a
\* request for any other method invokes none.
C9_SevenMethodsRouted ==
    (posts > 0 /\ request.decodes) =>
        LET b == request.body
        IN  /\ (~Malformed(request) =>
                  calls = << CASE b.method = "tasks/send" -> "on_send_task"
                               [] b.method = "tasks/sendSubscribe" -> "on_send_task_subscribe"
                               [] b.method = "tasks/get" -> "on_get_task"
                               [] b.method = "tasks/cancel" -> "on_cancel_task"
                               [] b.method = "tasks/pushNotification/set" ->
                                     "on_set_task_push_notification"
                               [] b.method = "tasks/pushNotification/get" ->
                                     "on_get_task_push_notification"
                               [] b.method = "tasks/resubscribe" -> "on_resubscribe_to_task" >>)
            /\ (b.method \notin Methods => calls = <<>>)

C9_Witness ==
    /\ posts = 2
    /\ ~Malformed(request)
    /\ request.body.method = "tasks/sendSubscribe"
    /\ calls = <<"on_send_task_subscribe">>
    /\ response.kind = "sse"

\* C10: a malformed POST is answered with a JSON-RPC error and HTTP 400,
\* JSONParseError when the body is not JSON and InvalidRequestError when
\* validation fails; it invokes no handler and leaves every task record as
\* it was.
C10_MalformedRejected ==
    /\ [](posts > 0 /\ Malformed(request) =>
            /\ calls = <<>>
            /\ response.kind = "json"
            /\ response.status_code = 400
            /\ response.error = IF request.decodes THEN "InvalidRequestError"
                                ELSE "JSONParseError")
    /\ [][posts' # posts /\ Malformed(request') => tasks' = tasks]_vars

C10_Witness ==
    /\ posts = 2
    /\ request.decodes
    /\ request.body.jsonrpc_ok
    /\ request.body.params_ok
    /\ request.body.method = "tasks/unknown"
    /\ response.error = "InvalidRequestError"
    /\ tasks[request.body.task] = "working"

\* C11 (as claimed): whatever a handler raises while it processes a valid
\* request, the caller gets InternalError with no data taken from the
\* exception, never JSONParseError or InvalidRequestError.
C11_HandlerFailureIsInternalError ==
    (posts > 0 /\ calls # <<>> /\ outcome.raises # "none") =>
        /\ response.error = "InternalError"
        /\ response.data = "none"

\* C12 (as claimed): every single response to a request whose envelope
\* carries id X carries id X, error responses included.
C12_ResponseCarriesRequestId ==
    (posts > 0 /\ request.decodes /\ response.kind = "json") =>
        response.id = request.body.id

\* C13 (as claimed): the method decides the rendering: tasks/sendSubscribe
\* and tasks/resubscribe are always answered with an event stream, the other
\* five methods always with a single JSON response.
C13_RenderingByMethod ==
    (posts > 0 /\ ~Malformed(request)) =>
        (response.kind = "sse" <=>
            request.body.method \in {"tasks/sendSubscribe", "tasks/resubscribe"})

\* C13 (amended): what the handler returns decides the rendering: an event
\* stream exactly when it returns an asynchronous sequence, a single JSON
\* response with status 200 when it returns a JSONRPCResponse, a JSON-RPC
\* error with status 400 when it raises or returns anything else.
C13_RenderingByResultType ==
    (posts > 0 /\ calls # <<>>) =>
        /\ (response.kind = "sse" <=>
               (outcome.raises = "none" /\ outcome.type = "AsyncIterable"))
        /\ (outcome.raises = "none" /\ outcome.type = "JSONRPCResponse" =>
               response.kind = "json" /\ response.status_code = 200)
        /\ (outcome.raises # "none" \/ outcome.type \notin {"AsyncIterable", "JSONRPCResponse"} =>
               response.kind = "json" /\ response.status_code = 400)

C13_Witness ==
    /\ posts = 2
    /\ request.decodes
    /\ request.body.method = "tasks/sendSubscribe"
    /\ calls = <<"on_send_task_subscribe">>
    /\ outcome = [raises |-> "none", type |-> "JSONRPCResponse"]
    /\ response.kind = "json"
    /\ response.error = "InvalidStateTransition"

\* C14 (as claimed): a tasks/sendSubscribe stream on a new task delivers at
\* least one event and the last event before it closes has a terminal status
\* (completed, failed or canceled).
C14_StreamEndsOnTerminalStatus ==
    spc = "closed" =>
        /\ Len(events) >= 1
        /\ events[Len(events)].data.json.state \in Terminal

\* a tasks/send went out through a client and came back
Sent == last.op = "send_task" /\ last.addr # "None"

\* C15: RemoteAgentClient.send_task raises a remote-protocol error (RuntimeError)
\* when the response envelope carries a non-null error, raises a transport
\* error of another type on a connection, timeout or HTTP-status failure, and
\* returns a result only when it raises nothing.
C15_ErrorEnvelopeRaisesProtocolError ==
    Sent =>
        LET envelopeError == /\ last.post.raises = "none"
                             /\ last.post.body.json
                             /\ last.post.body.error = "error object"
            transport == \/ last.post.raises # "none"
                         \/ (last.post.status_code >= 400 /\ ~envelopeError)
        IN  /\ envelopeError => last.client.raises = "RuntimeError"
            /\ transport => last.client.raises \in {"ConnectionError", "Timeout", "HTTPError"}
            /\ (last.client.raises # "none") = (last.client.value = "none")

\* C16: HostAgent.send_task lets no exception escape, and the outcome it hands
\* back for a remote-protocol error differs from the outcome it hands back for
\* a transport error.
C16_FailuresHandedBackDistinct ==
    (Sent /\ last.client.raises # "none") =>
        /\ last.raises = "none"
        /\ \A post \in PostOutcomes :
              LET other == ClientSendTask(post)
                  mine == FailureOf(last.client.raises)
                  theirs == FailureOf(other.raises)
              IN  ({mine, theirs} = {"remote protocol error", "transport error"}) =>
                      <<SummaryOf(other).type, SummaryOf(other).text>>
                          # <<last.returned.type, last.returned.text>>

\* C17 (the continue setting, as claimed): a caller who chose to continue has
\* every step of the plan dispatched, in order, although a step's dispatch
\* failed.
C17_ContinueDispatchesEveryStep ==
    (node = "raised" /\ error = "DispatchError") =>
        /\ Len(sent) = Len(steps)
        /\ \A k \in 1..Len(sent) : sent[k].step_idx = k - 1

\* what a line of a plan may be marked with
Bullets == {"-", "*"}

IsPartOf(entry, line) ==
    \E i \in 1..Len(line) + 1, j \in 0..Len(line) : entry = SubSeq(line, i, j)

\* C18 (as claimed): the list the planner returns has one entry per non-blank
\* line of the generated text, in line order, and no entry is empty or begins
\* with an enumeration marker, a bullet or whitespace.
C18_OneCleanEntryPerLine ==
    ppc = "returned" =>
        LET lines == SelectSeq(SplitLines(generated), NonBlank)
        IN  /\ Len(subtasks) = Len(lines)
            /\ \A k \in 1..Len(subtasks) :
                  /\ IsPartOf(subtasks[k], lines[k])
                  /\ subtasks[k] # <<>>
                  /\ Head(subtasks[k]) \notin MarkerChars \cup Bullets \cup Whitespace

\* a discovery document arrived and has every required key
Discovered ==
    /\ last.op = "fetch_agent_card"
    /\ last.got = "none"
    /\ last.doc.name # "absent"
    /\ last.doc.version # "absent"
    /\ last.doc.has_capabilities

\* C19: fetch_agent_card on a document that lacks an optional field (the
\* description, a capability flag) succeeds with that field defaulted, and the
\* card is stored for the base URL it was fetched from, where lookups find it.
C19_OptionalFieldsDefaulted ==
    Discovered =>
        LET card == cards[last.addr]
        IN  /\ last.raises = "none"
            /\ card.loaded
            /\ card.url = last.addr
            /\ card.name = last.doc.name
            /\ card.version = last.doc.version
            /\ card.description = IF last.doc.description \in {"absent", ""}
                                  THEN "No description."
                                  ELSE last.doc.description
            /\ card.streaming = (last.doc.streaming = "true")
            /\ ClientByName(cards, last.doc.name) # "None"
            /\ InfoOf(last.addr, card).name = last.doc.name

C19_Witness ==
    /\ Discovered
    /\ last.doc.description = "absent"
    /\ last.doc.streaming = "absent"
    /\ last.addr = AddrList[2]
    /\ cards[AddrList[2]].description = "No description."
    /\ ~cards[AddrList[2]].streaming
    /\ ~cards[AddrList[1]].loaded

\* the summary of a card
SummaryOfCard(card) ==
    [name |-> card.name, description |-> card.description,
     url |-> card.url, streaming |-> card.streaming]

LifecycleEdges ==
    ({"absent"} \X {"submitted", "working", "input-required",
                    "completed", "failed", "canceled"})
    \cup ({"submitted"} \X {"working", "input-required",
                            "completed", "failed", "canceled"})
    \cup {<<"working", "input-required">>, <<"input-required", "working">>}
    \cup ({"working", "input-required"} \X Terminal)

Named(cs, agent_name) == {a \in Addrs : cs[a].loaded /\ cs[a].name = agent_name}

\* C22: HostAgent.send_task never raises; for a name no cached card carries it
\* returns an error string and posts nothing; otherwise it posts exactly one
\* tasks/send, to an agent of that name, with a task id no earlier post had,
\* and a call that raised is handed back as an error string.
C22_SendTaskNeverRaises ==
    [][ (ops' = ops + 1 /\ last'.op = "send_task") =>
            /\ last'.raises = "none"
            /\ last'.returned.type = "str"
            /\ IF Named(cards, last'.agent_name) = {}
               THEN /\ posted' = posted
                    /\ last'.returned.text = "Error: No agent card found for "
               ELSE /\ Len(posted') = Len(posted) + 1
                    /\ SubSeq(posted', 1, Len(posted)) = posted
                    /\ LET post == posted'[Len(posted')]
                       IN  /\ post.method = "tasks/send"
                           /\ post.url \in Named(cards, last'.agent_name)
                           /\ \A k \in 1..Len(posted) : posted[k].task_id # post.task_id
                    /\ (last'.client.raises # "none") =
                          (last'.returned.text = "Remote agent call failed: ") ]_vars

C22_Witness ==
    /\ last.op = "send_task"
    /\ last.addr # "None"
    /\ last.client.raises = "ConnectionError"
    /\ last.returned.text = "Remote agent call failed: "
    /\ Len(posted) = 1
    /\ ~cards[AddrList[1]].loaded

\* C23: a dispatch that raises leaves current, history and steps as they were
\* before the iteration, and afterwards nothing more is dispatched in the run.
C23_RaiseLeavesStateAndStops ==
    /\ [][ (node = "invoke" /\ error' = "DispatchError") =>
               /\ current' = current
               /\ history' = history
               /\ steps' = steps
               /\ node' = "raised" ]_vars
    /\ [][ error = "DispatchError" =>
               /\ sent' = sent
               /\ current' = current
               /\ history' = history
               /\ steps' = steps ]_vars
    /\ [](error = "DispatchError" => ~ENABLED executor_invoke)

C23_Witness ==
    /\ node = "raised"
    /\ error = "DispatchError"
    /\ Len(steps) = 3
    /\ Len(sent) = 2
    /\ current = 1
    /\ Len(history) = base + 1
    /\ inflight = 0

\* C24: the relay emits one event per item of the source sequence, in the
\* source's order, none dropped or duplicated; the event stream is closed
\* only when the source has ended, and then it holds every item.
C24_RelayIsFaithful ==
    /\ spc # "idle" =>
          /\ Len(events) = Len(yielded)
          /\ \A k \in 1..Len(events) : events[k] = Event(StatusUpdate(yielded[k]))
    /\ spc \in {"drained", "closed"} =>
          /\ graphItems = <<>>
          /\ yielded # <<>>
          /\ yielded[Len(yielded)] = GetAgentResponse(structured)
    /\ spc = "drained" => ENABLED stream_close

C24_Witness ==
    /\ spc = "closed"
    /\ Len(events) = 3
    /\ events[1].data.json.state = "working"
    /\ events[2].data.json.state = "working"
    /\ events[3].data.json.state = "completed"
    /\ events[1].data.json.text # events[2].data.json.text

\* the three responses of the claim
IsEventStream == response.kind = "sse" /\ response.status_code = 200

IsJsonSuccess ==
    response.kind = "json" /\ response.status_code = 200 /\ response.error = "none"

IsError400 ==
    response.kind = "json" /\ response.status_code = 400 /\ response.error # "none"

IsProgress(item) == ~item.is_task_complete /\ ~item.require_user_input

\* C26: a response of get_agent_response has exactly one of is_task_complete
\* and require_user_input true, and is_task_complete only for the structured
\* status completed; every progress item of the stream has both flags false;
\* the stream's last item is the get_agent_response result, yielded once.
C26_FlagsOfAgentResponses ==
    /\ \A k \in 1..Len(yielded) - 1 : IsProgress(yielded[k])
    /\ spc = "streaming" => \A k \in 1..Len(yielded) : IsProgress(yielded[k])
    /\ spc \in {"drained", "closed"} =>
          LET final == yielded[Len(yielded)]
          IN  /\ final = GetAgentResponse(structured)
              /\ final.is_task_complete # final.require_user_input
              /\ final.is_task_complete = (structured = "completed")
              /\ final.require_user_input =
                    (structured \in {"input_required", "error", "missing"})

C26_Witness ==
    /\ spc = "closed"
    /\ structured = "error"
    /\ Len(yielded) = 3
    /\ IsProgress(yielded[1])
    /\ IsProgress(yielded[2])
    /\ yielded[3].require_user_input
    /\ ~yielded[3].is_task_complete

Digits == {"0", "1", "2", "3", "4", "5", "6", "7", "8", "9"}

MarkerPunctuation == {".", "IDEOGRAPHIC_COMMA", ")", "FULLWIDTH_RPAREN"}

\* the length of the enumeration prefix of a line: digits, if any, and one
\* punctuation mark after them, or 0 when the line does not start like that
RECURSIVE MarkerLenFrom(_, _)
MarkerLenFrom(line, i) ==
    IF i > Len(line) THEN 0
    ELSE IF line[i] \in Digits THEN MarkerLenFrom(line, i + 1)
    ELSE IF line[i] \in MarkerPunctuation THEN i
    ELSE 0

MarkerLen(line) == MarkerLenFrom(line, 1)

\* the line without its enumeration prefix and the whitespace around the rest
WithoutMarker(line) ==
    LET stripped == Strip(line)
    IN  Strip(SubSeq(stripped, MarkerLen(stripped) + 1, Len(stripped)))

\* C27 (as claimed): the normalisation removes the enumeration prefix only: a
\* line without a marker comes back unchanged but for the whitespace around
\* it, and what follows a marker comes back unchanged, also when it starts
\* with a digit.
C27_OnlyThePrefixIsRemoved ==
    ppc = "returned" =>
        LET lines == SelectSeq(SplitLines(generated), NonBlank)
        IN  /\ Len(subtasks) = Len(lines)
            /\ \A k \in 1..Len(lines) : subtasks[k] = WithoutMarker(lines[k])

====
